---------------------------- MODULE Spec2Model ----------------------------
(* A model of injects/decorators.py: the four decorator factories           *)
(* (injects, injects.ctx, composes, composes.ctx), each with its            *)
(* synchronous and asynchronous wrapper, on top of inspect.Signature        *)
(* binding and contextlib.ExitStack / AsyncExitStack.                       *)
EXTENDS Integers, Sequences, FiniteSets, TLC

(***************************************************************************)
(* Bounds of the model.                                                    *)
(***************************************************************************)
\* longest var-positional tail the table or a caller supplies
MaxExtra == 2
\* most entries a decoration-time table holds
MaxTable == 2
\* most arguments (positional plus keyword) one call supplies
MaxSupplied == 2

(***************************************************************************)
(* Values.  Every Python object the wrappers handle is a record            *)
(*   kind    : what the object is                                          *)
(*   id      : which one (the table slot or the caller's name for it)      *)
(*   arg     : for the result of c(a), the id of a                         *)
(*   ret     : for a callable, the kind of object it returns               *)
(*   wrapped : TRUE for an instance of _bindwrap around the object         *)
(***************************************************************************)
Val(kind, id, arg, ret, wrapped) ==
    [kind |-> kind, id |-> id, arg |-> arg, ret |-> ret, wrapped |-> wrapped]

\* Python's None and False
NoneV  == Val("None", "None", "", "", FALSE)
FalseV == Val("False", "False", "", "", FALSE)
\* a callable; ret is the kind of object a call of it returns
Fn(id, ret) == Val("fn", id, "", ret, FALSE)
\* a literal held in an injector table
Lit(id) == Val("lit", id, "", "", FALSE)
\* the declared default of parameter id
Default(id) == Val("default", id, "", "", FALSE)

\* class _bindwrap: the marker put around every injector table entry
bindwrap(v) == [v EXCEPT !.wrapped = TRUE]
\* a.val
unwrap(a) == [a EXCEPT !.wrapped = FALSE]
\* isinstance(a, _bindwrap)
isbindwrap(a) == a.wrapped
\* callable(x)
callable(x) == x.kind = "fn"
\* inspect.iscoroutine(x): x is a coroutine object (a pending computation)
iscoroutine(x) == x.kind = "coro"
\* hasattr(x, '__aenter__')
hasaenter(x) == x.kind = "acm"
\* x has __enter__/__exit__ (what ExitStack.enter_context needs)
hasenter(x) == x.kind = "cm"

\* the object a call c() or c(a) returns: it is of the kind the callable
\* makes, remembers its maker, and (for c(a)) what it was made from
CallResult(c, argid) == Val(c.ret, c.id, argid, "", FALSE)
\* the value of `await v` for a coroutine object v
Await(v) == [v EXCEPT !.kind = "resolved"]
\* what cm.__enter__() / await cm.__aenter__() hands back
Inside(v) == [v EXCEPT !.kind = "inside"]

(***************************************************************************)
(* Signatures: inspect.signature(fn), a sequence of parameters.            *)
(***************************************************************************)
Param(name, kind, hasDefault) ==
    [name |-> name, kind |-> kind, hasDefault |-> hasDefault]

\* def f(x, y=..., z=...)
SigA == << Param("x", "POS", FALSE), Param("y", "POS", TRUE),
           Param("z", "POS", TRUE) >>
\* def f(*args, k=..., **kw)
SigB == << Param("args", "VARPOS", FALSE),
           Param("k", "KWONLY", TRUE), Param("kw", "VARKW", FALSE) >>
Signatures == {SigA, SigB}

HasKind(sig, kind) == \E i \in 1..Len(sig) : sig[i].kind = kind
IsPos(p) == p.kind = "POS"
PosParams(sig) == SelectSeq(sig, IsPos)
NamedParams(sig) ==
    {sig[i].name : i \in {j \in 1..Len(sig) : sig[j].kind \in {"POS", "KWONLY"}}}
RequiredParams(sig) ==
    {sig[i].name : i \in {j \in 1..Len(sig) :
        sig[j].kind \in {"POS", "KWONLY"} /\ ~sig[j].hasDefault}}
PosIndex(sig, name) ==
    CHOOSE i \in 1..Len(PosParams(sig)) : PosParams(sig)[i].name = name

\* keyword names outside every signature (they land in **kw)
ExtraNames == {"h", "j"}
\* the order in which dictionaries are walked: signature order, then **kw
NameOrder == << "x", "y", "z", "k", "h", "j" >>

(***************************************************************************)
(* BoundArguments.arguments: named maps the POS and KWONLY parameters      *)
(* that are bound; hasVar/var is the *args entry, hasKw/kw the **kw one.   *)
(***************************************************************************)
EmptyMap == [n \in {} |-> NoneV]
Arguments(named, hasVar, var, hasKw, kw) ==
    [named |-> named, hasVar |-> hasVar, var |-> var, hasKw |-> hasKw, kw |-> kw]
NoArguments == Arguments(EmptyMap, FALSE, <<>>, FALSE, EmptyMap)

\* dict union a | b: b's entries win
DictOr(a, b) ==
    [n \in DOMAIN a \cup DOMAIN b |-> IF n \in DOMAIN b THEN b[n] ELSE a[n]]

\* arguments |= other (each parameter's entry is replaced whole)
ArgumentsOr(a, b) ==
    Arguments(DictOr(a.named, b.named),
              a.hasVar \/ b.hasVar, IF b.hasVar THEN b.var ELSE a.var,
              a.hasKw \/ b.hasKw, IF b.hasKw THEN b.kw ELSE a.kw)

\* Signature.bind (partial = FALSE) and Signature.bind_partial
\* (partial = TRUE), given positional values args and keyword values kwargs
Bind(sig, args, kwargs, partial) ==
    LET pos      == PosParams(sig)
        npos     == Len(pos)
        nfill    == IF Len(args) < npos THEN Len(args) ELSE npos
        filled   == {pos[i].name : i \in 1..nfill}
        extras   == SubSeq(args, npos + 1, Len(args))
        bykw     == DOMAIN kwargs \cap NamedParams(sig)
        leftover == DOMAIN kwargs \ NamedParams(sig)
        named    == [n \in filled \cup bykw |->
                        IF n \in filled THEN args[PosIndex(sig, n)] ELSE kwargs[n]]
        ok       == /\ Len(args) > npos => HasKind(sig, "VARPOS")
                    /\ filled \cap DOMAIN kwargs = {}
                    /\ partial \/ RequiredParams(sig) \subseteq DOMAIN named
                    /\ leftover # {} => HasKind(sig, "VARKW")
    IN  [ok |-> ok,
         arguments |-> Arguments(named,
                                 Len(extras) > 0, extras,
                                 leftover # {}, [n \in leftover |-> kwargs[n]])]

\* BoundArguments.args
RECURSIVE ArgsFrom(_, _, _)
ArgsFrom(sig, A, i) ==
    IF i > Len(sig) THEN <<>>
    ELSE LET p == sig[i] IN
         IF p.kind \in {"VARKW", "KWONLY"} THEN <<>>
         ELSE IF p.kind = "VARPOS"
              THEN IF A.hasVar THEN A.var \o ArgsFrom(sig, A, i + 1) ELSE <<>>
              ELSE IF p.name \in DOMAIN A.named
                   THEN <<A.named[p.name]>> \o ArgsFrom(sig, A, i + 1)
                   ELSE <<>>
BArgs(sig, A) == ArgsFrom(sig, A, 1)

\* the first parameter at which BoundArguments.kwargs starts collecting
KwStart(sig, A) ==
    LET starts == {i \in 1..Len(sig) :
                      \/ sig[i].kind \in {"VARKW", "KWONLY"}
                      \/ sig[i].kind = "POS" /\ sig[i].name \notin DOMAIN A.named
                      \/ sig[i].kind = "VARPOS" /\ ~A.hasVar}
    IN  IF starts = {} THEN Len(sig) + 1
        ELSE CHOOSE i \in starts : \A j \in starts : i <= j

\* BoundArguments.kwargs
BKwargs(sig, A) ==
    LET late == {sig[i].name : i \in {j \in KwStart(sig, A)..Len(sig) :
                    sig[j].kind \in {"POS", "KWONLY"}}} \cap DOMAIN A.named
        kws  == IF A.hasKw THEN DOMAIN A.kw ELSE {}
    IN  [n \in late \cup kws |-> IF n \in late THEN A.named[n] ELSE A.kw[n]]

\* the keys of a dictionary in the order it is walked
KeysInOrder(d) == SelectSeq(NameOrder, LAMBDA n : n \in DOMAIN d)

(***************************************************************************)
(* The merge primitives.                                                   *)
(***************************************************************************)
\* a tagged value: the triple (value, flag, callable) both merges yield
Tag(v, flag, awt) == [v |-> v, flag |-> flag, awt |-> awt]
\* an entry of the lazy generators b_args / b_kwargs, not yet computed:
\* k the keyword ("" for a positional one), c the composer, a the argument
Item(k, c, a) == [k |-> k, c |-> c, a |-> a]

\* no copy at all: the same dictionary under another name
copy_alias(d) == [fresh |-> FALSE, val |-> d]
\* copy.copy(d): a new dictionary with d's entries.  fresh tells whether an
\* update of the result leaves d itself alone.
copy_copy(d) == [fresh |-> TRUE, val |-> d]

\* _call_bound_inject(a): does it call a.val
InjectCalls(a) == isbindwrap(a) /\ callable(unwrap(a))
\* _call_bound_inject(a), the call a.val() having returned
call_bound_inject(a) ==
    IF ~isbindwrap(a) THEN Tag(a, FALSE, FalseV)
    ELSE IF ~callable(unwrap(a)) THEN Tag(unwrap(a), FALSE, FalseV)
    ELSE Tag(CallResult(unwrap(a), ""), TRUE, unwrap(a))

\* _build_bound_compose._call(c, a): does it call c
ComposeCalls(c, a) == ~(c = a \/ c = NoneV)
\* _build_bound_compose._call(c, a), the call c(a) having returned
compose_call(c, a) ==
    IF c = a \/ c = NoneV THEN Tag(a, FALSE, FalseV)
    ELSE Tag(CallResult(c, a.id), TRUE, c)

\* itertools.zip_longest(p, q): as long as the longer, padded with None
zip_longest(p, q) ==
    LET n == IF Len(p) < Len(q) THEN Len(q) ELSE Len(p)
    IN  [i \in 1..n |-> << IF i <= Len(p) THEN p[i] ELSE NoneV,
                           IF i <= Len(q) THEN q[i] ELSE NoneV >>]
\* zip(p, q): as long as the shorter of the two
zip(p, q) ==
    LET n == IF Len(p) < Len(q) THEN Len(p) ELSE Len(q)
    IN  [i \in 1..n |-> << p[i], q[i] >>]

\* dict.get(k): None when k is no key
DictGet(d, k) == IF k \in DOMAIN d THEN d[k] ELSE NoneV

\* the overlay the other way round: the table's entries win
InjectOverlayReversed(bcargs, baargs) == ArgumentsOr(baargs, bcargs)
\* bb.arguments |= ba.arguments, on the copy of bc.arguments
InjectOverlay(bcargs, baargs) == ArgumentsOr(bcargs, baargs)
\* _build_bound_inject(ba, bc): bb is bc overlaid with ba; the generators
\* walk bb.args and bb.kwargs
build_bound_inject(s, baargs, bcargs) ==
    LET cp  == copy_copy(bcargs)
        bb  == InjectOverlay(cp.val, baargs)
        ks  == KeysInOrder(BKwargs(s, bb))
        bba == BArgs(s, bb)
    IN  [b_args   |-> [i \in 1..Len(bba) |-> Item("", FalseV, bba[i])],
         b_kwargs |-> [i \in 1..Len(ks) |-> Item(ks[i], FalseV, BKwargs(s, bb)[ks[i]])],
         table    |-> IF cp.fresh THEN bcargs ELSE bb]

\* _build_bound_compose(ba, bc): bb is ba overlaid with bc; the generators
\* walk zip(bb.args, ba.args) and ba.kwargs, looking each key up in bb.kwargs
build_bound_compose(s, baargs, bcargs) ==
    LET cp  == copy_copy(baargs)
        bb  == ArgumentsOr(cp.val, bcargs)
        ba1 == IF cp.fresh THEN baargs ELSE bb
        zs  == zip(BArgs(s, bb), BArgs(s, ba1))
        ks  == KeysInOrder(BKwargs(s, ba1))
    IN  [b_args   |-> [i \in 1..Len(zs) |-> Item("", zs[i][1], zs[i][2])],
         b_kwargs |-> [i \in 1..Len(ks) |->
                          Item(ks[i], DictGet(BKwargs(s, bb), ks[i]), BKwargs(s, ba1)[ks[i]])],
         table    |-> bcargs]

(***************************************************************************)
(* contextlib.ExitStack / AsyncExitStack                                   *)
(***************************************************************************)
\* first in, first out
ExitPopFirst(stk) == 1
\* which callback __exit__ runs next: _exit_callbacks.pop() takes the last
ExitPop(stk) == Len(stk)
\* the callbacks left once the i-th has been taken
RemoveAt(stk, i) == SubSeq(stk, 1, i - 1) \o SubSeq(stk, i + 1, Len(stk))

\* a with-statement that swallows whatever exception it is handed
WithExitSwallowing(e, res, recv, supp, pend) ==
    IF recv \/ pend THEN [pc |-> "returned", exc |-> "none", result |-> "None"]
    ELSE [pc |-> "returned", exc |-> "none", result |-> res]
\* how the with-statement ends once every callback has run
WithExit(e, res, recv, supp, pend) ==
    IF pend THEN [pc |-> "raised", exc |-> e, result |-> "none"]
    ELSE IF recv /\ supp THEN [pc |-> "returned", exc |-> "none", result |-> "None"]
    ELSE IF recv THEN [pc |-> "raised", exc |-> e, result |-> "none"]
    ELSE [pc |-> "returned", exc |-> "none", result |-> res]

(***************************************************************************)
(* The wrappers _fn, one per variant.                                      *)
(***************************************************************************)
\* how many names the for-target of the wrapper's kwargs comprehension has
KwTargetNames(m, c, a) ==
    IF m = "injects" /\ c /\ ~a THEN 3 ELSE 2
\* how many elements an entry of b_kwargs has, the pair (k, triple), in
\* either merge
KwEntryLen(m) == IF m \in {"injects", "composes"} THEN 2 ELSE 0

\* does the wrapper enter t as a scoped resource
Enters(c, t) == c /\ t.flag
\* can the stack enter v: enter_context needs __enter__, and the
\* asynchronous wrappers send what has __aenter__ to enter_async_context
CanEnter(a, v) == IF a THEN hasenter(v) \/ hasaenter(v) ELSE hasenter(v)
\* the asynchronous wrappers' test `inspect.iscoroutine(awt)`
Awaits(t) == iscoroutine(t.awt)
\* what the wrapper puts in args / kwargs for tagged value t
Consume(c, a, t) ==
    IF c THEN (IF t.flag THEN Inside(t.v) ELSE t.v)
    ELSE IF a THEN (IF Awaits(t) THEN Await(t.v) ELSE t.v)
    ELSE t.v

\* the call of fn: Python binds the arguments and fills the defaults
ApplyDefaults(s, A) ==
    [A EXCEPT !.named = [n \in NamedParams(s) |->
                            IF n \in DOMAIN A.named THEN A.named[n] ELSE Default(n)]]

(***************************************************************************)
(* State.                                                                  *)
(***************************************************************************)
VARIABLES
    mode,           \* "injects" or "composes": the decorator factory used
    ctx,            \* TRUE for the .ctx variant
    isasync,        \* asyncio.iscoroutinefunction(fn), fixed at decoration
    sig,            \* inspect.signature(fn)
    bc,             \* bc.arguments: the injector / composer table
    bc0,            \* the table as it was when the decorator ran
    pc,             \* where the current call of _fn is
    callArgs,       \* the call's *args
    callKwargs,     \* the call's **kwargs
    b_args,         \* what is left of the generator b_args
    b_kwargs,       \* what is left of the generator b_kwargs
    args,           \* the list args the wrapper builds
    kwargs,         \* the dict kwargs the wrapper builds
    stack,          \* the exit stack's callbacks, oldest first
    exc,            \* the exception in flight, "none" if there is none
    received_exc,   \* ExitStack.__exit__: it was handed an exception
    suppressed_exc, \* ExitStack.__exit__: a callback swallowed one
    pending_raise,  \* ExitStack.__exit__: a callback raised
    result,         \* what the call of _fn returns
    fnArgs,         \* the positional values fn is called with
    fnKwargs,       \* the keyword values fn is called with
    received,       \* fn's parameters as fn sees them
    invoked,        \* fn's body has started
    log             \* what has happened in this call, in order

vars == << mode, ctx, isasync, sig, bc, bc0, pc, callArgs, callKwargs,
           b_args, b_kwargs, args, kwargs, stack, exc, received_exc,
           suppressed_exc, pending_raise, result, fnArgs, fnKwargs,
           received, invoked, log >>

decoration == << mode, ctx, isasync, sig, bc0 >>

Event(ev, id, out) == [ev |-> ev, id |-> id, out |-> out]

(***************************************************************************)
(* Decoration: the tables a decorator factory can be given.                *)
(***************************************************************************)
\* the ids of the var-positional table entries
VarId == << "args1", "args2", "args3", "args4" >>
\* the keyword names a table puts in **kw
TableKwNames == {"h"}
\* the values a caller passes: None, and a callable of the caller's own
CallVals == {NoneV, Fn("g", "plain")}

\* what the callables of a table return, per variant
Rets(c, a) ==
    IF c THEN (IF a THEN {"cm", "acm"} ELSE {"cm"})
    ELSE (IF a THEN {"plain", "coro"} ELSE {"plain"})
\* the shapes of a table entry: a literal (injects), None (composes),
\* or a callable
Shapes(m, c, a) == (IF m = "injects" THEN {"lit"} ELSE {"None"}) \cup Rets(c, a)
\* injects wraps every entry in _bindwrap; composes stores it as given
Entry(m, slot, shape) ==
    IF m = "injects"
    THEN bindwrap(IF shape = "lit" THEN Lit(slot) ELSE Fn(slot, shape))
    ELSE IF shape = "None" THEN NoneV ELSE Fn(slot, shape)

\* sig.bind_partial of the decorator factory's arguments
Tables(m, c, a, s) ==
    UNION { UNION { UNION {
        { Arguments([n \in S |-> Entry(m, n, f[n])],
                    v > 0, [i \in 1..v |-> Entry(m, VarId[i], g[i])],
                    K # {}, [n \in K |-> Entry(m, n, h[n])]) :
            f \in [S -> Shapes(m, c, a)], g \in [1..v -> Shapes(m, c, a)],
            h \in [K -> Shapes(m, c, a)] } :
        K \in {T \in SUBSET TableKwNames :
                  /\ T # {} => HasKind(s, "VARKW")
                  /\ Cardinality(S) + v + Cardinality(T) <= MaxTable} } :
        v \in {w \in 0..MaxExtra :
                  w > 0 => /\ HasKind(s, "VARPOS")
                           /\ \A i \in 1..Len(PosParams(s)) : PosParams(s)[i].name \in S} } :
        S \in SUBSET NamedParams(s) }

Init ==
    /\ mode \in {"injects", "composes"}
    /\ ctx \in BOOLEAN
    /\ isasync \in BOOLEAN
    /\ sig \in Signatures
    /\ bc \in Tables(mode, ctx, isasync, sig)
    /\ bc0 = bc
    /\ pc = "idle"
    /\ callArgs = <<>>
    /\ callKwargs = EmptyMap
    /\ b_args = <<>>
    /\ b_kwargs = <<>>
    /\ args = <<>>
    /\ kwargs = EmptyMap
    /\ stack = <<>>
    /\ exc = "none"
    /\ received_exc = FALSE
    /\ suppressed_exc = FALSE
    /\ pending_raise = FALSE
    /\ result = "none"
    /\ fnArgs = <<>>
    /\ fnKwargs = EmptyMap
    /\ received = NoArguments
    /\ invoked = FALSE
    /\ log = <<>>

(***************************************************************************)
(* Leaving the body of _fn.                                                *)
(***************************************************************************)
\* The body ends with exception e ("none": it returns res) while stk holds
\* the entered resources.  With resources to release the with-statement's
\* __exit__ starts; with none the call is over.
Leave(stk, e, res) ==
    /\ stack' = stk
    /\ IF stk # <<>>
       THEN /\ pc' = "unwind"
            /\ exc' = e
            /\ result' = res
            /\ received_exc' = (e # "none")
       ELSE LET out == WithExit(e, res, e # "none", FALSE, FALSE)
            IN  /\ pc' = out.pc
                /\ exc' = out.exc
                /\ result' = out.result
                /\ received_exc' = FALSE
    /\ suppressed_exc' = FALSE
    /\ pending_raise' = FALSE

\* the state a call starts from
Fresh ==
    /\ args' = <<>>
    /\ kwargs' = EmptyMap
    /\ fnArgs' = <<>>
    /\ fnKwargs' = EmptyMap
    /\ received' = NoArguments
    /\ invoked' = FALSE

(***************************************************************************)
(* A call of _fn: it binds its arguments and merges them with the table.   *)
(***************************************************************************)
Call(av, kv) ==
    /\ pc = "idle"
    /\ callArgs' = av
    /\ callKwargs' = kv
    /\ Fresh
    /\ log' = <<>>
    /\ UNCHANGED decoration
    /\ LET b == Bind(sig, av, kv, mode = "injects")
           m == IF mode = "injects"
                THEN build_bound_inject(sig, b.arguments, bc)
                ELSE build_bound_compose(sig, b.arguments, bc)
       IN  IF ~b.ok
           THEN /\ Leave(<<>>, "TypeError", "none")
                /\ b_args' = <<>>
                /\ b_kwargs' = <<>>
                /\ bc' = bc
           ELSE /\ pc' = "resolve"
                /\ b_args' = m.b_args
                /\ b_kwargs' = m.b_kwargs
                /\ bc' = m.table
                /\ stack' = <<>>
                /\ exc' = "none"
                /\ result' = "none"
                /\ received_exc' = FALSE
                /\ suppressed_exc' = FALSE
                /\ pending_raise' = FALSE

\* the calls a caller can make
CallNames(s) == NamedParams(s) \cup ExtraNames
MaxPositional(s) ==
    IF HasKind(s, "VARPOS") THEN Len(PosParams(s)) + MaxExtra
    ELSE Len(PosParams(s)) + 1
SomeCall ==
    \E n \in 0..MaxSupplied :
      /\ n <= MaxPositional(sig)
      /\ \E av \in [1..n -> CallVals] :
         \E K \in SUBSET CallNames(sig) :
           /\ n + Cardinality(K) <= MaxSupplied
           /\ \E kv \in [K -> CallVals] : Call(av, kv)

(***************************************************************************)
(* The comprehensions that build args and kwargs: one step per entry of    *)
(* b_args, then of b_kwargs.  Taking an entry from the generator computes  *)
(* it (which may call a table callable); the for-target unpacks it; the    *)
(* comprehension's expression then awaits or enters it.                    *)
(***************************************************************************)
Stepping == pc = "resolve" /\ (b_args # <<>> \/ b_kwargs # <<>>)
\* the walk is in the kwargs comprehension
InKwargs == b_args = <<>>
\* the entry being taken from the generator
Cur == IF InKwargs THEN Head(b_kwargs) ELSE Head(b_args)
\* the callable computing the entry would call
Callee == IF mode = "injects" THEN unwrap(Cur.a) ELSE Cur.c
\* computing the entry calls a table callable
CurCalls ==
    IF mode = "injects" THEN InjectCalls(Cur.a) ELSE ComposeCalls(Cur.c, Cur.a)
\* the entry, its callable (if any) having returned
CurTag ==
    IF mode = "injects" THEN call_bound_inject(Cur.a) ELSE compose_call(Cur.c, Cur.a)
\* the log once the entry is computed
Computed(out) ==
    IF CurCalls THEN Append(log, Event("call", Callee.id, out)) ELSE log
\* the for-target of the comprehension fits the entry
Unpacks == ~InKwargs \/ KwTargetNames(mode, ctx, isasync) = KwEntryLen(mode)

\* the comprehension stops: the body of _fn ends with exception e
Abort(e, lg) ==
    /\ Leave(stack, e, "none")
    /\ log' = lg
    /\ b_args' = <<>>
    /\ b_kwargs' = <<>>
    /\ UNCHANGED << decoration, bc, callArgs, callKwargs, args, kwargs,
                    fnArgs, fnKwargs, received, invoked >>

\* the comprehension stores v for the entry and goes on
Store(v, stk, lg) ==
    /\ IF InKwargs
       THEN /\ kwargs' = DictOr(kwargs, [n \in {Cur.k} |-> v])
            /\ b_kwargs' = Tail(b_kwargs)
            /\ UNCHANGED << args, b_args >>
       ELSE /\ args' = Append(args, v)
            /\ b_args' = Tail(b_args)
            /\ UNCHANGED << kwargs, b_kwargs >>
    /\ stack' = stk
    /\ log' = lg
    /\ UNCHANGED << decoration, bc, pc, callArgs, callKwargs, exc,
                    received_exc, suppressed_exc, pending_raise, result,
                    fnArgs, fnKwargs, received, invoked >>

\* the table callable raises (or the composer is no callable at all)
StepCallRaises ==
    /\ Stepping
    /\ CurCalls
    /\ Abort(IF callable(Callee) THEN "CallError" ELSE "TypeError",
             Computed("raise"))

\* the for-target does not fit the entry: ValueError
StepUnpackFails ==
    /\ Stepping
    /\ CurCalls => callable(Callee)
    /\ ~Unpacks
    /\ Abort("ValueError", Computed("ok"))

\* a value that is not entered: passed on, awaited first where the
\* asynchronous wrapper says so
StepValue ==
    /\ Stepping
    /\ CurCalls => callable(Callee)
    /\ Unpacks
    /\ ~Enters(ctx, CurTag)
    /\ Store(Consume(ctx, isasync, CurTag), stack, Computed("ok"))

\* stack.enter_context(v) / await stack.enter_async_context(v) succeeds
StepEnter ==
    /\ Stepping
    /\ CurCalls => callable(Callee)
    /\ Unpacks
    /\ Enters(ctx, CurTag)
    /\ CanEnter(isasync, CurTag.v)
    /\ Store(Consume(ctx, isasync, CurTag), Append(stack, CurTag.v),
             Append(Computed("ok"), Event("enter", CurTag.v.id, "ok")))

\* entering fails: the resource's setup raises, or the value is no resource
StepEnterFails ==
    /\ Stepping
    /\ CurCalls => callable(Callee)
    /\ Unpacks
    /\ Enters(ctx, CurTag)
    /\ Abort(IF CanEnter(isasync, CurTag.v) THEN "EnterError" ELSE "TypeError",
             Append(Computed("ok"), Event("enter", CurTag.v.id, "raise")))

(***************************************************************************)
(* The second binding, ba = sig.bind(...), and the call of fn.              *)
(***************************************************************************)
Invoking == pc = "resolve" /\ b_args = <<>> /\ b_kwargs = <<>>
\* the wrapper's second binding (bind_partial for injects, bind for composes)
Rebound == Bind(sig, args, kwargs, mode = "injects")
FnArgs == BArgs(sig, Rebound.arguments)
FnKwargs == BKwargs(sig, Rebound.arguments)
\* Python binding the call of fn with ba.args and ba.kwargs
FnBound == Bind(sig, FnArgs, FnKwargs, FALSE)

\* the second binding fails, or the call leaves a required parameter out
InvokeTypeError ==
    /\ Invoking
    /\ ~(Rebound.ok /\ FnBound.ok)
    /\ Leave(stack, "TypeError", "none")
    /\ UNCHANGED << decoration, bc, callArgs, callKwargs, b_args, b_kwargs,
                    args, kwargs, fnArgs, fnKwargs, received, invoked, log >>

\* fn runs and ends as out says: "return" or "raise"
Invoke(out) ==
    /\ Invoking
    /\ Rebound.ok /\ FnBound.ok
    /\ fnArgs' = FnArgs
    /\ fnKwargs' = FnKwargs
    /\ received' = ApplyDefaults(sig, FnBound.arguments)
    /\ invoked' = TRUE
    /\ log' = Append(log, Event("invoke", "fn", out))
    /\ Leave(stack, IF out = "raise" THEN "FnError" ELSE "none",
                    IF out = "raise" THEN "none" ELSE "FnResult")
    /\ UNCHANGED << decoration, bc, callArgs, callKwargs, b_args, b_kwargs,
                    args, kwargs >>

(***************************************************************************)
(* ExitStack.__exit__ / AsyncExitStack.__aexit__: one callback per step.   *)
(* out is what the resource's __exit__ does: "ok" (returns false),         *)
(* "suppress" (returns true with an exception in flight) or "raise".       *)
(***************************************************************************)
Exit(out) ==
    /\ pc = "unwind"
    /\ stack # <<>>
    /\ out = "suppress" => exc # "none"
    /\ LET i   == ExitPop(stack)
           stk == RemoveAt(stack, i)
           e   == IF out = "suppress" THEN "none"
                  ELSE IF out = "raise" THEN "ExitError" ELSE exc
           sup == suppressed_exc \/ out = "suppress"
           pen == IF out = "suppress" THEN FALSE
                  ELSE IF out = "raise" THEN TRUE ELSE pending_raise
           fin == WithExit(e, result, received_exc, sup, pen)
       IN  /\ stack' = stk
           /\ log' = Append(log, Event("exit", stack[i].id, out))
           /\ IF stk # <<>>
              THEN /\ pc' = "unwind"
                   /\ exc' = e
                   /\ result' = result
                   /\ received_exc' = received_exc
                   /\ suppressed_exc' = sup
                   /\ pending_raise' = pen
              ELSE /\ pc' = fin.pc
                   /\ exc' = fin.exc
                   /\ result' = fin.result
                   /\ received_exc' = FALSE
                   /\ suppressed_exc' = FALSE
                   /\ pending_raise' = FALSE
    /\ UNCHANGED << decoration, bc, callArgs, callKwargs, b_args, b_kwargs,
                    args, kwargs, fnArgs, fnKwargs, received, invoked >>

(***************************************************************************)
(* The call is over: the caller has the result or the exception, and the   *)
(* call's own values are dropped.  Only the decoration outlives it.        *)
(***************************************************************************)
Done ==
    /\ pc \in {"returned", "raised"}
    /\ pc' = "idle"
    /\ callArgs' = <<>>
    /\ callKwargs' = EmptyMap
    /\ Fresh
    /\ log' = <<>>
    /\ exc' = "none"
    /\ result' = "none"
    /\ UNCHANGED << decoration, bc, b_args, b_kwargs, stack, received_exc,
                    suppressed_exc, pending_raise >>

Next ==
    \/ SomeCall
    \/ Done
    \/ StepCallRaises
    \/ StepUnpackFails
    \/ StepValue
    \/ StepEnter
    \/ StepEnterFails
    \/ InvokeTypeError
    \/ Invoke("return")
    \/ Invoke("raise")
    \/ Exit("ok")
    \/ Exit("suppress")
    \/ Exit("raise")

Spec == Init /\ [][Next]_vars

(***************************************************************************)
(* What a call looks like from outside: the caller's side, computed from   *)
(* callArgs and callKwargs alone, and the record of events in log.         *)
(***************************************************************************)
Terminal == pc \in {"returned", "raised"}
NPos == Len(PosParams(sig))
\* the named parameters the caller supplied, positionally or by keyword
SuppliedNamed ==
    {PosParams(sig)[i].name : i \in {j \in 1..NPos : j <= Len(callArgs)}}
        \cup (DOMAIN callKwargs \cap NamedParams(sig))
\* the value the caller supplied for named parameter p
CallerValue(p) ==
    IF p \in DOMAIN callKwargs THEN callKwargs[p] ELSE callArgs[PosIndex(sig, p)]
\* the positional values beyond the positional parameters
CallerExtras == SubSeq(callArgs, NPos + 1, Len(callArgs))
\* the keyword names that are no parameter's
CallerKw == DOMAIN callKwargs \ NamedParams(sig)
\* the call's own arguments fit the signature
CallBinds == Bind(sig, callArgs, callKwargs, mode = "injects").ok

\* the value an injector table entry stands for
TableValue(e) ==
    IF callable(unwrap(e)) THEN CallResult(unwrap(e), "") ELSE unwrap(e)
\* every table slot that holds a callable, with the parameter owning it
TableCallables ==
    {[id |-> n, supplied |-> n \in SuppliedNamed] :
        n \in {m \in DOMAIN bc0.named : callable(unwrap(bc0.named[m]))}}
    \cup {[id |-> unwrap(bc0.var[i]).id, supplied |-> CallerExtras # <<>>] :
        i \in {k \in DOMAIN bc0.var : callable(unwrap(bc0.var[k]))}}
    \cup {[id |-> n, supplied |-> CallerKw # {}] :
        n \in {m \in DOMAIN bc0.kw : callable(unwrap(bc0.kw[m]))}}

EventsOf(ev, out) == SelectSeq(log, LAMBDA e : e.ev = ev /\ e.out = out)
IdsOf(evs) == [i \in 1..Len(evs) |-> evs[i].id]
Reverse(q) == [i \in 1..Len(q) |-> q[Len(q) + 1 - i]]
\* the resources entered, in order of entry
Entered == IdsOf(EventsOf("enter", "ok"))
\* the resources released, in order of release
Released == IdsOf(SelectSeq(log, LAMBDA e : e.ev = "exit"))
\* how often the callable of table slot id was invoked
CallCount(id) ==
    Cardinality({i \in DOMAIN log : log[i].ev = "call" /\ log[i].id = id})
\* a table callable raised, or a resource failed to set up
SetupFailed ==
    \E i \in DOMAIN log : log[i].ev \in {"call", "enter"} /\ log[i].out = "raise"
\* the wrapped function ran and raised
FnRaised == \E i \in DOMAIN log : log[i].ev = "invoke" /\ log[i].out = "raise"
\* a resource's teardown swallowed the exception or raised one of its own
TeardownInterfered ==
    \E i \in DOMAIN log : log[i].ev = "exit" /\ log[i].out # "ok"
\* every value the wrapped function was handed
ReceivedValues ==
    {received.named[n] : n \in DOMAIN received.named}
        \cup {received.var[i] : i \in DOMAIN received.var}
        \cup {received.kw[n] : n \in DOMAIN received.kw}
\* the keyword portion of the merged binding of an injects call
MergedKwargs ==
    BKwargs(sig, ArgumentsOr(bc0, Bind(sig, callArgs, callKwargs, TRUE).arguments))

(***************************************************************************)
(* The claims.                                                             *)
(***************************************************************************)

\* C1: in a call of a synchronous injects-decorated function, each
\* parameter of f receives the caller's value if the caller supplied it
\* (None included), otherwise the table's value (the literal, or the result
\* of calling the table's callable), otherwise f's declared default.
C1_InjectPrecedence ==
    (mode = "injects" /\ ~ctx /\ ~isasync /\ invoked) =>
        /\ \A p \in NamedParams(sig) :
              received.named[p] =
                  IF p \in SuppliedNamed THEN CallerValue(p)
                  ELSE IF p \in DOMAIN bc0.named THEN TableValue(bc0.named[p])
                  ELSE Default(p)
        /\ received.var =
              IF CallerExtras # <<>> THEN CallerExtras
              ELSE [i \in DOMAIN bc0.var |-> TableValue(bc0.var[i])]
        /\ received.kw =
              IF CallerKw # {} THEN [n \in CallerKw |-> callKwargs[n]]
              ELSE [n \in DOMAIN bc0.kw |-> TableValue(bc0.kw[n])]

\* a call that overrides one table entry with None, takes another from the
\* table's callable, and leaves a third parameter to its default
C1_Witness ==
    /\ mode = "injects" /\ ~ctx /\ ~isasync /\ invoked /\ pc = "returned"
    /\ \E p \in SuppliedNamed \cap DOMAIN bc0.named :
          CallerValue(p) = NoneV /\ received.named[p] = NoneV
    /\ \E q \in DOMAIN bc0.named \ SuppliedNamed :
          /\ callable(unwrap(bc0.named[q]))
          /\ received.named[q] = CallResult(unwrap(bc0.named[q]), "")
    /\ \E r \in NamedParams(sig) : received.named[r] = Default(r)

\* C2: in a call of a composes-decorated function that binds, a parameter
\* the caller did not supply reaches f as its declared default, and the
\* table's composer for it is never invoked.
C2_ComposeOnlySupplied ==
    (mode = "composes" /\ pc # "idle") =>
        /\ \A p \in NamedParams(sig) \ SuppliedNamed :
              /\ CallCount(p) = 0
              /\ invoked => received.named[p] = Default(p)
        /\ \A i \in 1..Len(VarId) :
              i > Len(CallerExtras) =>
                  /\ CallCount(VarId[i]) = 0
                  /\ invoked => i \notin DOMAIN received.var
        /\ \A n \in TableKwNames \ CallerKw :
              /\ CallCount(n) = 0
              /\ invoked => n \notin DOMAIN received.kw

\* one parameter composed, while another with a composer in the table is
\* left to its default
C2_Witness ==
    /\ mode = "composes" /\ invoked
    /\ \E p \in DOMAIN bc0.named \ SuppliedNamed :
          callable(bc0.named[p]) /\ received.named[p] = Default(p)
    /\ \E q \in DOMAIN bc0.named \cap SuppliedNamed :
          /\ callable(bc0.named[q])
          /\ received.named[q].id = q
          /\ received.named[q].arg = CallerValue(q).id

\* C3: in a call of a composes-decorated function, every parameter that
\* the caller supplied and for which the table holds a composer (not None,
\* not the supplied value itself) reaches f as composer(supplied value),
\* the composer having been invoked exactly once.
C3_ComposedOnce ==
    (mode = "composes" /\ invoked) =>
        /\ \A p \in SuppliedNamed \cap DOMAIN bc0.named :
              (bc0.named[p] # NoneV /\ bc0.named[p] # CallerValue(p)) =>
                  /\ received.named[p].id = bc0.named[p].id
                  /\ received.named[p].arg = CallerValue(p).id
                  /\ CallCount(p) = 1
        /\ \A n \in CallerKw \cap DOMAIN bc0.kw :
              (bc0.kw[n] # NoneV /\ bc0.kw[n] # callKwargs[n]) =>
                  /\ received.kw[n].id = bc0.kw[n].id
                  /\ received.kw[n].arg = callKwargs[n].id
                  /\ CallCount(n) = 1

\* C4: in the context-scoped variants the resources released so far are
\* the last ones entered, latest first, none twice; when the call is over
\* every entered resource has been released; and after a failed factory or
\* a failed setup the wrapped function is not invoked.
C4_ReleaseReverse ==
    ctx =>
        /\ Len(Released) <= Len(Entered)
        /\ \A i \in 1..Len(Released) : Released[i] = Reverse(Entered)[i]
        /\ \A i, k \in 1..Len(Released) : Released[i] = Released[k] => i = k
        /\ Len(stack) = Len(Entered) - Len(Released)
        /\ Terminal => Released = Reverse(Entered)
        /\ SetupFailed => ~invoked

\* two resources entered, the wrapped function raised, both released
C4_Witness ==
    /\ ctx /\ pc = "raised" /\ FnRaised
    /\ Len(Entered) = 2
    /\ Released = Reverse(Entered)

\* C5: an asynchronous function decorated with injects or composes never
\* receives a pending coroutine that a table callable returned.
C5_AwaitedBeforeInvoke ==
    (isasync /\ ~ctx /\ invoked) =>
        \A v \in ReceivedValues : ~iscoroutine(v)

\* C6: in a call of an injects-decorated function (plain or .ctx) whose
\* arguments bind and in which no callable raises and no setup fails, each
\* callable of the table has been invoked exactly once by the end of the
\* call if the caller did not supply its parameter, and not at all if the
\* caller did; the caller's own callable is never invoked.
C6_InjectorOnce ==
    (mode = "injects" /\ Terminal /\ CallBinds /\ ~SetupFailed) =>
        /\ \A c \in TableCallables :
              CallCount(c.id) = IF c.supplied THEN 0 ELSE 1
        /\ CallCount("g") = 0

\* C7: no call changes the table captured at decoration time.
C7_TableUnchanged == bc = bc0

\* a call has run to its end with an argument for a parameter the table
\* also holds
C7_Witness ==
    /\ pc = "returned" /\ invoked
    /\ SuppliedNamed \cap DOMAIN bc0.named # {}
    /\ bc = bc0

\* C8: in the synchronous injects.ctx wrapper a call whose merged binding
\* has a keyword portion and covers every required parameter, whose
\* arguments bind and in which nothing fails to set up, goes on to call
\* the wrapped function with each keyword entry under its name.
C8_KeywordPortionDelivered ==
    (/\ mode = "injects" /\ ctx /\ ~isasync
     /\ Terminal /\ CallBinds /\ ~SetupFailed
     /\ DOMAIN MergedKwargs # {}
     /\ RequiredParams(sig) \subseteq SuppliedNamed \cup DOMAIN bc0.named) =>
        /\ invoked
        /\ DOMAIN MergedKwargs \subseteq DOMAIN fnKwargs

C10_NoArgumentDropped ==
    (mode = "composes" /\ invoked) =>
        /\ Len(fnArgs) + Cardinality(DOMAIN fnKwargs)
              = Len(callArgs) + Cardinality(DOMAIN callKwargs)
        /\ Len(received.var) = Len(CallerExtras)
        /\ DOMAIN received.kw = CallerKw

=============================================================================
